---- MODULE Spec2Model ----
(***************************************************************************)
(* Model of the stochastic collective-estimation simulator of              *)
(* freerider_memo_revised.py: simulate_collective_intelligence and the     *)
(* parameter models it reads.                                              *)
(*                                                                         *)
(* Numbers.  Ratings, ground truths and noise are fixed-point numbers in   *)
(* units of 1/Unit.  Probabilities are in hundredths.  A collective        *)
(* estimate is kept in units of 1/(Unit*Scale), where Scale is a common    *)
(* multiple of every possible number of participants, so that the mean of  *)
(* the ratings is exact.  An accuracy is kept in units of 1/AccOne.        *)
(*                                                                         *)
(* Randomness.  numpy's global generator is a deterministic function of    *)
(* its seed: rng = [seed, pos] is the generator's state, pos counting the  *)
(* draws made since the last seeding.  The values the generator yields     *)
(* after seed(42) are fixed but unknown: stream holds the values read so   *)
(* far, a draw at a known position re-reads its value, a draw at the end   *)
(* of the stream picks any raw value and records it.  Each draw function   *)
(* (uniform, random, normal) maps the raw value to its own range.          *)
(***************************************************************************)
EXTENDS Integers, Sequences, FiniteSets, TLC

(* ---- bounds ---- *)
MaxTrials == 2
MaxCount == 1
MaxDraws == 8
MaxCompareTrials == 1

(* ---- fixed-point scales ---- *)
Unit == 10
ProbOne == 100

(* ---- class AgentType(IntEnum) ---- *)
INTRINSIC == 0
FREE_RIDER == 1
OPT_OUT == 2
AgentType == {INTRINSIC, FREE_RIDER, OPT_OUT}

(* ---- EMPIRICAL_PARAMS, in hundredths ---- *)
EMPIRICAL_PARAMS ==
  [ intrinsic_base_participation      |-> 76,
    intrinsic_incentive_participation |-> 86,
    freerider_base_participation      |-> 23,
    freerider_incentive_participation |-> 63,
    intrinsic_accuracy                |-> 29,
    intrinsic_accuracy_se             |-> 8,
    freerider_accuracy                |-> 46,
    freerider_accuracy_se             |-> 12,
    intrinsic_positive_bias           |-> 78,
    freerider_negative_bias           |-> 82 ]

(* the module-level dict EMPIRICAL_PARAMS as it stands: the functions below *)
(* look their values up in it when they are called                         *)
VARIABLE params

(* a mutation of participation_model: the two conditions are exchanged *)
participation_modelSwapped(agent_type, has_incentive) ==
  IF agent_type = INTRINSIC
    THEN (IF has_incentive THEN params.intrinsic_base_participation
                           ELSE params.intrinsic_incentive_participation)
  ELSE IF agent_type = FREE_RIDER
    THEN (IF has_incentive THEN params.freerider_base_participation
                           ELSE params.freerider_incentive_participation)
  ELSE 0

participation_model(agent_type, has_incentive) ==
  IF agent_type = INTRINSIC
    THEN (IF has_incentive THEN params.intrinsic_incentive_participation
                           ELSE params.intrinsic_base_participation)
  ELSE IF agent_type = FREE_RIDER
    THEN (IF has_incentive THEN params.freerider_incentive_participation
                           ELSE params.freerider_base_participation)
  ELSE 0

accuracy_model(agent_type) ==
  IF agent_type = INTRINSIC THEN params.intrinsic_accuracy
  ELSE IF agent_type = FREE_RIDER THEN params.freerider_accuracy
  ELSE 0

bias_model(agent_type) ==
  IF agent_type = INTRINSIC THEN params.intrinsic_positive_bias
  ELSE IF agent_type = FREE_RIDER THEN params.freerider_negative_bias
  ELSE 0

(* ---- freerider_memo_clean.py: the @memo constants, in hundredths ---- *)
CLEAN_MEMO ==
  [ intrinsic_base_participation      |-> 76,
    intrinsic_incentive_participation |-> 86,
    freerider_base_participation      |-> 23,
    freerider_incentive_participation |-> 63,
    intrinsic_accuracy                |-> 29,
    freerider_accuracy                |-> 46,
    intrinsic_positive_bias           |-> 80,
    freerider_negative_bias           |-> 80 ]

get_participation_rates(agent_type) ==
  IF agent_type = INTRINSIC
    THEN [ base_rate       |-> CLEAN_MEMO.intrinsic_base_participation,
           with_incentives |-> CLEAN_MEMO.intrinsic_incentive_participation ]
  ELSE IF agent_type = FREE_RIDER
    THEN [ base_rate       |-> CLEAN_MEMO.freerider_base_participation,
           with_incentives |-> CLEAN_MEMO.freerider_incentive_participation ]
  ELSE [base_rate |-> 0, with_incentives |-> 0]

get_rating_patterns(agent_type) ==
  IF agent_type = INTRINSIC
    THEN [ bias_probability |-> CLEAN_MEMO.intrinsic_positive_bias,
           accuracy         |-> CLEAN_MEMO.intrinsic_accuracy ]
  ELSE IF agent_type = FREE_RIDER
    THEN [ bias_probability |-> CLEAN_MEMO.freerider_negative_bias,
           accuracy         |-> CLEAN_MEMO.freerider_accuracy ]
  ELSE [bias_probability |-> 0, accuracy |-> 0]

(* ---- freerider_memo_working.py: the @memo constants, in hundredths ---- *)
WORKING_MEMO ==
  [ intrinsic_participation_base_rate       |-> 76,
    intrinsic_participation_with_incentives |-> 86,
    freerider_participation_base_rate       |-> 23,
    freerider_participation_with_incentives |-> 63,
    intrinsic_positive_bias_probability     |-> 80,
    freerider_negative_bias_probability     |-> 80,
    intrinsic_individual_accuracy           |-> 29,
    freerider_individual_accuracy           |-> 46 ]

predict_participation_probability(agent_type, incentive_available) ==
  IF agent_type = INTRINSIC
    THEN (IF incentive_available THEN WORKING_MEMO.intrinsic_participation_with_incentives
                                 ELSE WORKING_MEMO.intrinsic_participation_base_rate)
  ELSE IF agent_type = FREE_RIDER
    THEN (IF incentive_available THEN WORKING_MEMO.freerider_participation_with_incentives
                                 ELSE WORKING_MEMO.freerider_participation_base_rate)
  ELSE 0

(* the dict's probability is under the key positive_bias_prob, negative_bias_prob *)
(* or bias_prob, by type: bias_prob here stands for whichever the dict has       *)
predict_rating_bias_pattern(agent_type) ==
  IF agent_type = INTRINSIC
    THEN [ bias_prob           |-> WORKING_MEMO.intrinsic_positive_bias_probability,
           individual_accuracy |-> WORKING_MEMO.intrinsic_individual_accuracy ]
  ELSE IF agent_type = FREE_RIDER
    THEN [ bias_prob           |-> WORKING_MEMO.freerider_negative_bias_probability,
           individual_accuracy |-> WORKING_MEMO.freerider_individual_accuracy ]
  ELSE [bias_prob |-> 0, individual_accuracy |-> 0]

(* ---- arithmetic helpers ---- *)
Abs(x) == IF x < 0 THEN -x ELSE x

Min2(a, b) == IF a < b THEN a ELSE b

Max2(a, b) == IF a > b THEN a ELSE b

(* ---- theory of mind: reliability_assessment ---- *)
(* reliabilities are held in thousandths: a participation rate in hundredths *)
(* times the 0.7 or 0.6 of lines 147 and 151, in tenths                      *)
RelOne == 10 * ProbOne

(* a mutation of reliability_assessment: the two observers' rules exchanged *)
reliability_assessmentSwapped(observer_type, source_type) ==
  LET source_participation == participation_model(source_type, FALSE)
  IN  IF observer_type = INTRINSIC
        THEN Max2(RelOne \div 10, RelOne - source_participation * 7)
      ELSE IF observer_type = FREE_RIDER
        THEN Min2(9 * (RelOne \div 10), 3 * (RelOne \div 10) + source_participation * 6)
      ELSE RelOne \div 2

(* lines 132-154 *)
reliability_assessment(observer_type, source_type) ==
  LET source_participation == participation_model(source_type, FALSE)
  IN  IF observer_type = FREE_RIDER
        THEN Max2(RelOne \div 10, RelOne - source_participation * 7)
      ELSE IF observer_type = INTRINSIC
        THEN Min2(9 * (RelOne \div 10), 3 * (RelOne \div 10) + source_participation * 6)
      ELSE RelOne \div 2

RECURSIVE Gcd(_, _)
Gcd(a, b) == IF b = 0 THEN a ELSE Gcd(b, a % b)

RECURSIVE LcmUpTo(_)
LcmUpTo(k) == IF k <= 1 THEN 1 ELSE (LcmUpTo(k - 1) * k) \div Gcd(LcmUpTo(k - 1), k)

RECURSIVE SqrtBetween(_, _, _)
SqrtBetween(lo, hi, x) ==
  IF lo >= hi THEN lo
  ELSE LET mid == (lo + hi + 1) \div 2
       IN  IF mid * mid <= x THEN SqrtBetween(mid, hi, x)
                             ELSE SqrtBetween(lo, mid - 1, x)

(* np.sqrt, rounded down to the fixed-point grid *)
Sqrt(x) == SqrtBetween(0, Min2(x, 40000), x)

RECURSIVE SumSeq(_)
SumSeq(s) == IF s = <<>> THEN 0 ELSE Head(s) + SumSeq(Tail(s))

(* a mutation of Clip: the value is not clipped *)
ClipNothing(x, lo, hi) == x

(* np.clip(x, lo, hi) *)
Clip(x, lo, hi) == Max2(lo, Min2(x, hi))

(* ---- derived scales ---- *)
(* at most MaxCount agents of each of the two rating types take part *)
MaxParticipants == 2 * MaxCount

Scale == LcmUpTo(MaxParticipants)

(* 100 rating points, the divisor of the accuracy formula, in estimate units *)
Hundred == 100 * Unit * Scale

(* accuracy 1.0 in accuracy units *)
AccOne == Hundred

(* ---- the random generator ---- *)
SEED == 42

Raw == 0 .. 2

(* np.random.random(): a value of [0, 1), in hundredths *)
Random(raw) == <<0, 76, 99>>[raw + 1]

(* np.random.uniform(lo, hi) = lo + (hi - lo) * random() *)
Uniform(lo, hi, raw) == lo + ((hi - lo) * Random(raw)) \div ProbOne

(* a standard normal deviate, in whole standard deviations *)
Gauss(raw) == <<-6, 1, 6>>[raw + 1]

(* np.random.normal(loc, scale) = loc + scale * gauss() *)
Normal(loc, scale, raw) == loc + scale * Gauss(raw)

Seeded(s) == [seed |-> <<s>>, pos |-> 0]

(* a mutation of Reseed: the call leaves the generator as it finds it *)
ReseedSkipped(g) == g

(* a mutation of Advance: a draw leaves the generator where it was *)
AdvanceStuck(g) == g

(* line 238: np.random.seed(42) replaces the state g of the global generator *)
Reseed(g) == Seeded(SEED)

(* the generator as the interpreter starts it: seeded from OS entropy *)
Unseeded == [seed |-> <<>>, pos |-> 0]

(* the raw values explored for a draw of each kind the first time its position *)
(* of the stream is read: both ends of the ground-truth range, one value on     *)
(* each side of a Bernoulli draw, a noise that clips and one that does not      *)
Drawable(kind) ==
  IF kind = "ground_truth" THEN {0, 2}
  ELSE IF kind = "participation" THEN {0, 1}
  ELSE IF kind = "bias" THEN {1, 2}
  ELSE {0, 1}

(* the raw values generator g may yield next for a draw of this kind, given the *)
(* known stream s: a known position yields its value again                      *)
Draws(g, s, kind) ==
  IF g.seed = <<SEED>> /\ g.pos < Len(s) THEN {s[g.pos + 1]} ELSE Drawable(kind)

(* the known stream after g yielded r *)
Recorded(g, s, r) == IF g.seed = <<SEED>> /\ g.pos = Len(s) THEN Append(s, r) ELSE s

Advance(g) == [g EXCEPT !.pos = @ + 1]

(* ---- compositions: a dict, i.e. entries in insertion order, keys distinct ---- *)
Counts == -1 .. MaxCount

Entry(t, c) == [type |-> t, count |-> c]

Entries == [type : AgentType, count : Counts]

DistinctKeys(comp) == \A i, j \in 1 .. Len(comp) : comp[i].type = comp[j].type => i = j

Compositions ==
  {comp \in UNION {[1 .. len -> Entries] : len \in 0 .. Cardinality(AgentType)} :
     DistinctKeys(comp)}

(* the composition argument: None, or a dict *)
NoneArg == [given |-> FALSE, value |-> <<>>]

Given(comp) == [given |-> TRUE, value |-> comp]

Arguments == {NoneArg} \cup {Given(comp) : comp \in Compositions}

DefaultComposition == <<Entry(INTRINSIC, 10), Entry(FREE_RIDER, 5)>>

(* line 232: if composition is None *)
Effective(arg) == IF arg.given THEN arg.value ELSE DefaultComposition

(* the inner loop body runs range(count) times for the entries not skipped *)
RECURSIVE Agents(_)
Agents(comp) ==
  IF comp = <<>> THEN 0
  ELSE (IF Head(comp).type = OPT_OUT \/ Head(comp).count <= 0 THEN 0 ELSE Head(comp).count)
       + Agents(Tail(comp))

(* the most draws a call can make *)
DrawsNeeded(n, comp) == IF n <= 0 THEN 0 ELSE n * (1 + 3 * Agents(comp))

(* ---- one agent (lines 252-272) ---- *)
(* a mutation of Participates: a draw equal to the rate participates too *)
ParticipatesOrEqual(agent_type, raw) == Random(raw) <= participation_model(agent_type, FALSE)

(* line 255: np.random.random() < participation_prob *)
Participates(agent_type, raw) == Random(raw) < participation_model(agent_type, FALSE)

(* a mutation of Bias: the offsets of the two types are exchanged *)
BiasSwapped(agent_type, raw) ==
  IF agent_type = INTRINSIC
    THEN (IF Random(raw) < bias_model(agent_type) THEN -6 * Unit ELSE 1 * Unit)
    ELSE (IF Random(raw) < bias_model(agent_type) THEN 8 * Unit ELSE -2 * Unit)

(* lines 261-268: the bias offset, chosen by one draw *)
Bias(agent_type, raw) ==
  IF agent_type = INTRINSIC
    THEN (IF Random(raw) < bias_model(agent_type) THEN 8 * Unit ELSE -2 * Unit)
    ELSE (IF Random(raw) < bias_model(agent_type) THEN -6 * Unit ELSE 1 * Unit)

(* lines 264, 268: np.sqrt((1 - individual_accuracy) * 400), resp. * 300 *)
NoiseStd(agent_type) ==
  IF agent_type = INTRINSIC
    THEN Sqrt(((ProbOne - accuracy_model(agent_type)) * 400 * Unit * Unit) \div ProbOne)
    ELSE Sqrt(((ProbOne - accuracy_model(agent_type)) * 300 * Unit * Unit) \div ProbOne)

(* lines 270-271 *)
Rating(agent_type, gt, rawBias, rawNoise) ==
  Clip(gt + Bias(agent_type, rawBias) + Normal(0, NoiseStd(agent_type), rawNoise),
       0, 100 * Unit)

(* a mutation of AgentDraws: the bias and the noise are drawn before the *)
(* participation decision is looked at                                  *)
AgentDrawsEager(participates) == <<"participation", "bias", "noise">>

(* lines 255-270: the draws one agent makes, in order *)
AgentDraws(participates) ==
  IF participates THEN <<"participation", "bias", "noise">> ELSE <<"participation">>

(* a value the code did not compute *)
NotComputed == -1

(* ghost: what lines 254-268 computed for an agent that abstained *)
Abstained(agent_type, raw) ==
  [ agent_type          |-> agent_type,
    participation_prob  |-> participation_model(agent_type, FALSE),
    u                   |-> Random(raw),
    participates        |-> FALSE,
    individual_accuracy |-> NotComputed,
    bias_prob           |-> NotComputed,
    v                   |-> NotComputed,
    bias                |-> 0 ]

(* ghost: what lines 254-268 computed for an agent that rated *)
Rated(agent_type, raw, rawBias) ==
  [ agent_type          |-> agent_type,
    participation_prob  |-> participation_model(agent_type, FALSE),
    u                   |-> Random(raw),
    participates        |-> TRUE,
    individual_accuracy |-> accuracy_model(agent_type),
    bias_prob           |-> bias_model(agent_type),
    v                   |-> Random(rawBias),
    bias                |-> Bias(agent_type, rawBias) ]

(* ---- the loops over the composition (lines 248-252) ---- *)
(* the next inner-loop iteration at or after iteration k of entry e: the     *)
(* entries with OPT_OUT or a zero count are skipped by continue, range(count) *)
(* is empty for a negative count; entry Len(comp) + 1 means no agent is left  *)
(* a mutation of Seek: OPT_OUT entries are not skipped *)
RECURSIVE SeekOptOutToo(_, _, _)
SeekOptOutToo(comp, e, k) ==
  IF e > Len(comp) THEN <<e, 0>>
  ELSE IF k >= comp[e].count THEN SeekOptOutToo(comp, e + 1, 0)
  ELSE <<e, k>>

RECURSIVE Seek(_, _, _)
Seek(comp, e, k) ==
  IF e > Len(comp) THEN <<e, 0>>
  ELSE IF comp[e].type = OPT_OUT \/ comp[e].count = 0 THEN Seek(comp, e + 1, 0)
  ELSE IF k >= comp[e].count THEN Seek(comp, e + 1, 0)
  ELSE <<e, k>>

(* ---- aggregation (lines 275-280) ---- *)
(* a mutation of Mean: the first rating stands for all *)
MeanOfFirst(rs) == rs[1] * Scale

(* np.mean(ratings), in estimate units *)
Mean(rs) == (SumSeq(rs) * Scale) \div Len(rs)

(* a mutation of CollectiveEstimate: the fallback estimate is 0.0 *)
CollectiveEstimateZero(rs) == IF Len(rs) > 0 THEN Mean(rs) ELSE 0

(* lines 275-279 *)
CollectiveEstimate(rs) == IF Len(rs) > 0 THEN Mean(rs) ELSE 50 * Unit * Scale

(* a mutation of AccuracyOf: the error keeps its sign *)
AccuracySigned(estimate, gt) == AccOne - ((estimate - gt * Scale) * AccOne) \div Hundred

(* 1 - abs(collective_estimate - ground_truth) / 100, in accuracy units *)
AccuracyOf(estimate, gt) == AccOne - (Abs(estimate - gt * Scale) * AccOne) \div Hundred

(* a mutation of Accuracy: the formula is applied to the fallback estimate too *)
AccuracyNoFallback(rs, gt) == AccuracyOf(CollectiveEstimate(rs), gt)

Accuracy(rs, gt) ==
  IF Len(rs) > 0 THEN AccuracyOf(CollectiveEstimate(rs), gt) ELSE AccOne \div 2

TrialRecord(rs, gt) ==
  [ ground_truth        |-> gt,
    collective_estimate |-> CollectiveEstimate(rs),
    accuracy            |-> Accuracy(rs, gt),
    n_participants      |-> Len(rs) ]

(* ---- summary (lines 289-300) ---- *)
RECURSIVE SumAccuracy(_)
SumAccuracy(res) == IF res = <<>> THEN 0 ELSE Head(res).accuracy + SumAccuracy(Tail(res))

RECURSIVE SumSquares(_)
SumSquares(res) ==
  IF res = <<>> THEN 0 ELSE Head(res).accuracy * Head(res).accuracy + SumSquares(Tail(res))

(* results_df['accuracy'].mean(): the fraction sum / n, in accuracy units *)
MeanAccuracy(res) == [sum |-> SumAccuracy(res), n |-> Len(res)]

(* results_df['accuracy'].std(): pandas' sample standard deviation (ddof = 1), *)
(* NaN for a single trial; kept as its square sq_num / sq_den                  *)
StdAccuracy(res) ==
  LET n == Len(res)
  IN  IF n < 2 THEN [nan |-> TRUE, sq_num |-> 0, sq_den |-> 1]
      ELSE [ nan    |-> FALSE,
             sq_num |-> n * SumSquares(res) - SumAccuracy(res) * SumAccuracy(res),
             sq_den |-> n * (n - 1) ]

Summary(res, comp) ==
  [ mean_accuracy |-> MeanAccuracy(res),
    std_accuracy  |-> StdAccuracy(res),
    data          |-> res,
    composition   |-> comp ]

(* what a call that raised leaves its caller: no value *)
NoValue ==
  [ mean_accuracy |-> [sum |-> 0, n |-> 0],
    std_accuracy  |-> [nan |-> TRUE, sq_num |-> 0, sq_den |-> 1],
    data          |-> <<>>,
    composition   |-> <<>> ]

(* a mutation of LoopContinues: one trial too many *)
LoopOffByOne(done, n) == done <= n

(* line 241: for sim in range(n_simulations) has a next iteration *)
LoopContinues(done, n) == done < n

(* ---- state ---- *)
VARIABLES
  rng,            \* the state of numpy's global generator
  stream,         \* the values known of the generator's stream after seed(SEED)
  pc,             \* "idle", or where simulate_collective_intelligence stands
  argument,       \* the caller's composition argument
  n_simulations,
  composition,
  sim,            \* trials completed
  ground_truth,
  ratings,
  position,       \* <<entry of composition.items(), iteration of range(count)>>
  results,
  rated,          \* ghost: the ratings list of every completed trial
  drawn,          \* ghost: the draws of the call, in order, by kind
  rng_at_call,    \* ghost: rng when the call was made
  decided,        \* ghost: what each agent of the call decided, in order
  comparing,      \* compare_populations: 0 not called, k in its k-th iteration,
                  \* one past the last when it has returned
  compared,       \* compare_populations: its dict results
  reliability,    \* the caller's last reliability_assessment, <<>> before any
  calls           \* ghost: the completed calls, in order

vars ==
  <<params, rng, stream, pc, argument, n_simulations, composition, sim, ground_truth, ratings,
    position, results, rated, drawn, rng_at_call, decided, comparing, compared, reliability,
    calls>>

frame == <<argument, n_simulations, composition, rng_at_call>>

(* the state of the caller, which a running call leaves alone *)
caller == <<comparing, compared, reliability>>

TrialCounts == -1 .. MaxTrials

Init ==
  /\ params = EMPIRICAL_PARAMS
  /\ rng = Unseeded
  /\ stream = <<>>
  /\ pc = "idle"
  /\ argument = NoneArg
  /\ n_simulations = 0
  /\ composition = <<>>
  /\ sim = 0
  /\ ground_truth = 0
  /\ ratings = <<>>
  /\ position = <<1, 0>>
  /\ results = <<>>
  /\ rated = <<>>
  /\ drawn = <<>>
  /\ rng_at_call = Unseeded
  /\ decided = <<>>
  /\ comparing = 0
  /\ compared = <<>>
  /\ reliability = <<>>
  /\ calls = <<>>

(* lines 232-239: entry of simulate_collective_intelligence *)
Enter(n, arg) ==
  /\ pc = "idle"
  /\ argument' = arg
  /\ n_simulations' = n
  /\ composition' = Effective(arg)
  /\ rng_at_call' = rng
  /\ rng' = Reseed(rng)
  /\ results' = <<>>
  /\ sim' = 0
  /\ rated' = <<>>
  /\ drawn' = <<>>
  /\ decided' = <<>>
  /\ pc' = "loop"
  /\ UNCHANGED <<params, stream, ground_truth, ratings, position, calls>>

(* lines 241-246: a trial starts *)
BeginTrial ==
  /\ pc = "loop"
  /\ LoopContinues(sim, n_simulations)
  /\ \E r \in Draws(rng, stream, "ground_truth") :
       /\ stream' = Recorded(rng, stream, r)
       /\ ground_truth' = Uniform(20 * Unit, 80 * Unit, r)
  /\ rng' = Advance(rng)
  /\ ratings' = <<>>
  /\ position' = Seek(composition, 1, 0)
  /\ drawn' = Append(drawn, "ground_truth")
  /\ pc' = IF Seek(composition, 1, 0)[1] > Len(composition) THEN "aggregate" ELSE "agent"
  /\ UNCHANGED <<params, frame, caller, sim, results, rated, decided, calls>>

(* lines 252-272: one iteration of for _ in range(count), the agent abstains *)
AgentAbstains ==
  /\ pc = "agent"
  /\ LET agent_type == composition[position[1]].type
         next == Seek(composition, position[1], position[2] + 1)
         kinds == AgentDraws(FALSE)
     IN  /\ \E r \in Draws(rng, stream, kinds[1]) :
              /\ ~ Participates(agent_type, r)
              /\ stream' = Recorded(rng, stream, r)
              /\ decided' = Append(decided, Abstained(agent_type, r))
         /\ rng' = Advance(rng)
         /\ drawn' = drawn \o kinds
         /\ position' = next
         /\ pc' = IF next[1] > Len(composition) THEN "aggregate" ELSE "agent"
  /\ UNCHANGED <<params, frame, caller, sim, ground_truth, ratings, results, rated, calls>>

(* lines 252-272: one iteration of for _ in range(count), the agent rates *)
AgentRates ==
  /\ pc = "agent"
  /\ LET agent_type == composition[position[1]].type
         next == Seek(composition, position[1], position[2] + 1)
         kinds == AgentDraws(TRUE)
         g1 == Advance(rng)
         g2 == Advance(g1)
     IN  /\ \E r \in Draws(rng, stream, kinds[1]) :
              /\ Participates(agent_type, r)
              /\ LET s1 == Recorded(rng, stream, r)
                 IN  \E rb \in Draws(g1, s1, kinds[2]) :
                       LET s2 == Recorded(g1, s1, rb)
                       IN  \E rn \in Draws(g2, s2, kinds[3]) :
                             /\ stream' = Recorded(g2, s2, rn)
                             /\ ratings' = Append(ratings,
                                             Rating(agent_type, ground_truth, rb, rn))
                             /\ decided' = Append(decided, Rated(agent_type, r, rb))
         /\ rng' = Advance(g2)
         /\ drawn' = drawn \o kinds
         /\ position' = next
         /\ pc' = IF next[1] > Len(composition) THEN "aggregate" ELSE "agent"
  /\ UNCHANGED <<params, frame, caller, sim, ground_truth, results, rated, calls>>

(* lines 274-287: the collective estimate, and the trial is recorded *)
EndTrial ==
  /\ pc = "aggregate"
  /\ results' = Append(results, TrialRecord(ratings, ground_truth))
  /\ rated' = Append(rated, ratings)
  /\ sim' = sim + 1
  /\ pc' = "loop"
  /\ UNCHANGED <<params, rng, stream, frame, caller, ground_truth, ratings, position,
                 drawn, decided, calls>>

(* ---- compare_populations (lines 302-318) ---- *)
(* the counts of the code's compositions (15, 9, 7, 6 or 0 agents of a type) *)
(* in the model: one agent stands for all the agents of a type that is      *)
(* present, none for a type of count 0                                      *)
Scaled(count) == Min2(count, 1)

(* lines 307-312: the dict compositions, in insertion order *)
compositions ==
  << [ name        |-> "Homogeneous (Intrinsic)",
       composition |-> <<Entry(INTRINSIC, Scaled(15)), Entry(FREE_RIDER, Scaled(0))>> ],
     [ name        |-> "Homogeneous (Free Rider)",
       composition |-> <<Entry(INTRINSIC, Scaled(0)), Entry(FREE_RIDER, Scaled(15))>> ],
     [ name        |-> "Mixed (60/40)",
       composition |-> <<Entry(INTRINSIC, Scaled(9)), Entry(FREE_RIDER, Scaled(6))>> ],
     [ name        |-> "Mixed (50/50)",
       composition |-> <<Entry(INTRINSIC, Scaled(7)), Entry(FREE_RIDER, Scaled(7))>> ] >>

(* line 316: the 500 trials of every comparison, within the model's bound *)
CompareTrials == Min2(500, MaxCompareTrials)

(* a mutation of Key: every result goes under the first name *)
KeyStale(k) == compositions[1].name

(* line 316: the key results[name] of the k-th iteration *)
Key(k) == compositions[k].name

(* line 316: results[name] = ... *)
Store(dict, name, value) ==
  [key \in DOMAIN dict \cup {name} |-> IF key = name THEN value ELSE dict[key]]

(* where the value a call returns goes: into results[name] when the call was *)
(* made by an iteration of compare_populations, which then goes on           *)
Resume(value) ==
  IF comparing \in 1 .. Len(compositions)
    THEN /\ compared' = Store(compared, Key(comparing), value)
         /\ comparing' = comparing + 1
         /\ UNCHANGED reliability
    ELSE UNCHANGED caller

(* ghost: a completed call; by is the iteration of compare_populations that *)
(* made it, 0 for a call made otherwise                                    *)
CallRecord(outcome, value) ==
  [ n_simulations |-> n_simulations,
    argument      |-> argument,
    rng_before    |-> rng_at_call,
    rng_after     |-> rng,
    outcome       |-> outcome,
    value         |-> value,
    rated         |-> rated,
    drawn         |-> drawn,
    decided       |-> decided,
    by            |-> IF comparing \in 1 .. Len(compositions) THEN comparing ELSE 0 ]

(* lines 289-300: the loop is over and there are trials to summarise *)
Return ==
  /\ pc = "loop"
  /\ ~ LoopContinues(sim, n_simulations)
  /\ results # <<>>
  /\ calls' = Append(calls, CallRecord("returned", Summary(results, composition)))
  /\ Resume(Summary(results, composition))
  /\ pc' = "idle"
  /\ UNCHANGED <<params, rng, stream, frame, sim, ground_truth, ratings, position,
                 results, rated, drawn, decided>>

(* lines 289-290: no trial ran, the empty DataFrame has no 'accuracy' column *)
RaiseKeyError ==
  /\ pc = "loop"
  /\ ~ LoopContinues(sim, n_simulations)
  /\ results = <<>>
  /\ calls' = Append(calls, CallRecord("KeyError", NoValue))
  /\ pc' = "idle"
  /\ UNCHANGED <<params, rng, stream, frame, caller, sim, ground_truth, ratings, position,
                 results, rated, drawn, decided>>

(* ---- the caller ---- *)
(* the first call: any trial count and composition within the bounds *)
Call ==
  /\ pc = "idle"
  /\ calls = <<>>
  /\ \E n \in TrialCounts, arg \in Arguments :
       /\ DrawsNeeded(n, Effective(arg)) <= MaxDraws
       /\ Enter(n, arg)
  /\ UNCHANGED caller

Reverse(comp) == [i \in 1 .. Len(comp) |-> comp[Len(comp) + 1 - i]]

HasKey(comp, t) == \E i \in 1 .. Len(comp) : comp[i].type = t

(* del composition[t] *)
WithoutKey(comp, t) == SelectSeq(comp, LAMBDA e : e.type # t)

(* composition[t] = c: replaces the count of an existing key, else appends *)
WithKey(comp, t, c) ==
  IF HasKey(comp, t)
    THEN [i \in 1 .. Len(comp) |-> IF comp[i].type = t THEN Entry(t, c) ELSE comp[i]]
    ELSE Append(comp, Entry(t, c))

(* the arguments of the second call: the first call's argument again, its *)
(* entries in the opposite order, or its OPT_OUT entry changed            *)
Revisits(arg) ==
  IF ~ arg.given THEN {arg}
  ELSE {arg, Given(Reverse(arg.value)), Given(WithoutKey(arg.value, OPT_OUT))}
       \cup {Given(WithKey(arg.value, OPT_OUT, c)) : c \in Counts}

(* the second call: the first call's trial count with a revisited argument *)
Revisit ==
  /\ pc = "idle"
  /\ Len(calls) = 1
  /\ \E arg \in Revisits(calls[1].argument) : Enter(calls[1].n_simulations, arg)
  /\ UNCHANGED caller

(* lines 314-316: compare_populations is called: results = {} and the first *)
(* iteration calls the simulation                                           *)
ComparePopulations ==
  /\ pc = "idle"
  /\ comparing = 0
  /\ Len(calls) <= 1
  /\ compared' = <<>>
  /\ comparing' = 1
  /\ UNCHANGED reliability
  /\ Enter(CompareTrials, Given(compositions[1].composition))

(* lines 315-316: a further iteration calls the simulation *)
CompareNext ==
  /\ pc = "idle"
  /\ comparing \in 2 .. Len(compositions)
  /\ Enter(CompareTrials, Given(compositions[comparing].composition))
  /\ UNCHANGED caller

(* one call of the simulation on its own, before compare_populations or *)
(* after it returned, with the trial count and one of the compositions  *)
(* of the comparison                                                    *)
Standalone ==
  /\ pc = "idle"
  /\ \/ comparing = 0 /\ calls = <<>>
     \/ comparing = Len(compositions) + 1 /\ Len(calls) = Len(compositions)
  /\ \E k \in 1 .. Len(compositions) :
       Enter(CompareTrials, Given(compositions[k].composition))
  /\ UNCHANGED caller

(* ---- the configuration ---- *)
(* the keys of EMPIRICAL_PARAMS the simulation reads *)
ProbabilityKeys ==
  { "intrinsic_base_participation", "freerider_base_participation",
    "intrinsic_accuracy", "freerider_accuracy",
    "intrinsic_positive_bias", "freerider_negative_bias" }

(* values outside [0, 1] tried for a key, in hundredths: below 0 for every *)
(* key, above 1 for the rates and the bias probabilities                   *)
Outside(key) ==
  IF key \in {"intrinsic_accuracy", "freerider_accuracy"} THEN {-10} ELSE {-10, 150}

(* EMPIRICAL_PARAMS[key] = v, by the importing program before its first call: *)
(* the dict is assigned and nothing looks at the value                        *)
Configure ==
  /\ pc = "idle"
  /\ calls = <<>>
  /\ params = EMPIRICAL_PARAMS
  /\ \E key \in ProbabilityKeys :
       \E v \in Outside(key) : params' = [params EXCEPT ![key] = v]
  /\ UNCHANGED <<rng, stream, pc, frame, caller, sim, ground_truth, ratings, position,
                 results, rated, drawn, decided, calls>>

Next ==
  \/ Call
  \/ Revisit
  \/ BeginTrial
  \/ AgentAbstains
  \/ AgentRates
  \/ EndTrial
  \/ Return
  \/ RaiseKeyError

Spec == Init /\ [][Next]_vars

(* a program that may set one parameter before its only call *)
NextConfigured ==
  \/ Configure
  \/ Call
  \/ BeginTrial
  \/ AgentAbstains
  \/ AgentRates
  \/ EndTrial
  \/ Return
  \/ RaiseKeyError

SpecConfigured == Init /\ [][NextConfigured]_vars

(* a program that calls compare_populations, and the simulation once on its own *)
NextCompare ==
  \/ Standalone
  \/ ComparePopulations
  \/ CompareNext
  \/ BeginTrial
  \/ AgentAbstains
  \/ AgentRates
  \/ EndTrial
  \/ Return

SpecCompare == Init /\ [][NextCompare]_vars

(* ---- the caller of reliability_assessment ---- *)
(* the participation rates an importing program may give a key before it *)
(* asks for a reliability, in hundredths: those of the table, the ends   *)
(* of [0, 1] and its middle                                              *)
Rates == {0, 23, 50, 76, ProbOne}

(* the keys reliability_assessment reads, through participation_model(t, False) *)
BaseKeys == {"intrinsic_base_participation", "freerider_base_participation"}

(* EMPIRICAL_PARAMS[key] = v for a base participation rate, inside or *)
(* outside [0, 1]: the dict is assigned and nothing looks at the value *)
Retune ==
  /\ pc = "idle"
  /\ \E key \in BaseKeys :
       \E v \in Rates \cup Outside(key) : params' = [params EXCEPT ![key] = v]
  /\ UNCHANGED <<rng, stream, pc, frame, caller, sim, ground_truth, ratings, position,
                 results, rated, drawn, decided, calls>>

(* lines 379 and 442: reliability = reliability_assessment(observer, source); *)
(* the record keeps the arguments and the table's rate the value was made of  *)
Assess ==
  /\ pc = "idle"
  /\ \E observer \in AgentType :
       \E source \in AgentType :
         reliability' = << [ observer_type        |-> observer,
                             source_type          |-> source,
                             source_participation |-> participation_model(source, FALSE),
                             value                |-> reliability_assessment(observer, source) ] >>
  /\ UNCHANGED <<params, rng, stream, pc, frame, comparing, compared, sim, ground_truth,
                 ratings, position, results, rated, drawn, decided, calls>>

(* a program that sets base participation rates and asks for reliabilities *)
NextReliability ==
  \/ Retune
  \/ Assess

SpecReliability == Init /\ [][NextReliability]_vars

(* ---- vocabulary of the properties ---- *)
Calls == 1 .. Len(calls)

Returned(c) == c.outcome = "returned"

(* the composition a call ran against *)
Ran(c) == Effective(c.argument)

NonNegative(comp) == \A i \in 1 .. Len(comp) : comp[i].count >= 0

RECURSIVE Total(_)
Total(comp) == IF comp = <<>> THEN 0 ELSE Head(comp).count + Total(Tail(comp))

Occurrences(s, x) == Cardinality({i \in 1 .. Len(s) : s[i] = x})

Orderings(n) == {f \in [1 .. n -> 1 .. n] : \A i, j \in 1 .. n : f[i] = f[j] => i = j}

Permuted(s, f) == [i \in 1 .. Len(s) |-> s[f[i]]]

(* the trials recorded by the call in progress, or by the last call *)
Trials == 1 .. Len(results)

(* the trial records with their ratings lists: of the call in progress and, *)
(* when a call has just completed and none is in progress, of every         *)
(* completed call                                                           *)
Logs ==
  IF pc = "idle"
    THEN {[data |-> calls[i].value.data, rated |-> calls[i].rated] : i \in Calls}
    ELSE {[data |-> results, rated |-> rated]}

SomeRating(c) == \E t \in 1 .. Len(c.rated) : c.rated[t] # <<>>

(* C1: two calls with the same trial count and the same composition end the  *)
(* same way and give the same ground truths, ratings, collective estimates,  *)
(* accuracies, participant counts, mean and standard deviation, whatever the *)
(* state of the generator before each of them.                               *)
C1_Determinism ==
  \A i, j \in Calls :
    (calls[i].n_simulations = calls[j].n_simulations /\ calls[i].argument = calls[j].argument)
      => /\ calls[i].outcome = calls[j].outcome
         /\ calls[i].value = calls[j].value
         /\ calls[i].rated = calls[j].rated

(* two completed calls of at least one trial with the same input, made from *)
(* different generator states, with a rating                                *)
C1_Witness ==
  /\ Len(calls) = 2
  /\ calls[1].n_simulations >= 1
  /\ calls[1].argument = calls[2].argument
  /\ calls[1].rng_before # calls[2].rng_before
  /\ Returned(calls[2])
  /\ SomeRating(calls[2])

(* C2: a trial in which no agent participated is recorded with the estimate *)
(* 50.0 and the accuracy 0.5; every trial that ran is recorded, and a call  *)
(* of n >= 1 trials returns its n records without an error however many of  *)
(* them are degenerate.                                                     *)
C2_DegenerateTrial ==
  /\ Len(results) = sim
  /\ Len(rated) = sim
  /\ \A log \in Logs :
       \A t \in 1 .. Len(log.data) :
         log.rated[t] = <<>>
           => /\ log.data[t].collective_estimate = 50 * Unit * Scale
              /\ 2 * log.data[t].accuracy = AccOne
              /\ log.data[t].n_participants = 0
  /\ \A i \in Calls :
       calls[i].n_simulations >= 1
         => /\ Returned(calls[i])
            /\ Len(calls[i].value.data) = calls[i].n_simulations
            /\ Len(calls[i].rated) = calls[i].n_simulations

(* a call over agents that could rate returned a trial in which all abstained *)
C2_Witness ==
  /\ pc = "idle"
  /\ Len(calls) = 1
  /\ Returned(calls[1])
  /\ Agents(Ran(calls[1])) > 0
  /\ \E t \in Trials : rated[t] = <<>> /\ calls[1].value.data[t].n_participants = 0

(* C3: for a composition with non-negative counts every recorded accuracy is *)
(* in [0, 1], and so is the mean accuracy a call returns.                    *)
C3_AccuracyRange ==
  /\ (pc # "idle" /\ NonNegative(composition))
       => \A t \in Trials : results[t].accuracy >= 0 /\ results[t].accuracy <= AccOne
  /\ \A i \in Calls :
       (Returned(calls[i]) /\ NonNegative(Ran(calls[i])))
         => /\ \A t \in 1 .. Len(calls[i].value.data) :
                 /\ calls[i].value.data[t].accuracy >= 0
                 /\ calls[i].value.data[t].accuracy <= AccOne
            /\ calls[i].value.mean_accuracy.n = calls[i].n_simulations
            /\ calls[i].value.mean_accuracy.sum >= 0
            /\ calls[i].value.mean_accuracy.sum <= calls[i].value.mean_accuracy.n * AccOne

(* a returned call, counts non-negative, with a rated trial of accuracy below 1 *)
C3_Witness ==
  /\ Len(calls) = 1
  /\ Returned(calls[1])
  /\ NonNegative(Ran(calls[1]))
  /\ \E t \in 1 .. Len(calls[1].value.data) :
       /\ calls[1].value.data[t].n_participants > 0
       /\ calls[1].value.data[t].accuracy < AccOne
       /\ calls[1].value.data[t].accuracy > AccOne \div 2

(* C4: a call with n_simulations <= 0 is rejected with an input-validation  *)
(* error before any trial, any draw and any reseeding, and returns nothing. *)
C4_TrialCountRejected ==
  \A i \in Calls :
    calls[i].n_simulations <= 0
      => /\ calls[i].outcome = "InvalidTrialCount"
         /\ calls[i].rng_after = calls[i].rng_before
         /\ calls[i].drawn = <<>>
         /\ calls[i].value = NoValue

(* C5: a call with a composition of zero agents in total, or with a negative *)
(* count, reports an error and runs no trial (stated for the calls whose     *)
(* trial count is valid, so that the error is the composition's).            *)
C5_CompositionRejected ==
  /\ (pc # "idle" /\ n_simulations >= 1
        /\ (Total(composition) = 0 \/ ~ NonNegative(composition)))
       => results = <<>> /\ drawn = <<>>
  /\ \A i \in Calls :
       (calls[i].n_simulations >= 1
          /\ (Total(Ran(calls[i])) = 0 \/ ~ NonNegative(Ran(calls[i]))))
         => /\ calls[i].outcome = "InvalidComposition"
            /\ calls[i].value = NoValue

SameButOptOut(a, b) ==
  /\ a.given
  /\ b.given
  /\ WithoutKey(a.value, OPT_OUT) = WithoutKey(b.value, OPT_OUT)

OnlyOptOutPositive(comp) ==
  /\ \E e \in 1 .. Len(comp) : comp[e].type = OPT_OUT /\ comp[e].count > 0
  /\ \A e \in 1 .. Len(comp) : comp[e].count > 0 => comp[e].type = OPT_OUT

Fallback(rec) ==
  /\ rec.collective_estimate = 50 * Unit * Scale
  /\ 2 * rec.accuracy = AccOne
  /\ rec.n_participants = 0

(* C6: no inner-loop iteration runs for an OPT_OUT entry, so two calls with   *)
(* the same trial count whose compositions differ only in the OPT_OUT entry   *)
(* make the same draws and give the same ground truths, ratings, estimates,   *)
(* accuracies and summary; a composition whose only positive count is OPT_OUT *)
(* gives the fallback with no participant in every trial.                     *)
C6_OptOutInert ==
  /\ pc = "agent" => composition[position[1]].type # OPT_OUT
  /\ pc = "idle" => \A i, j \in Calls :
       (calls[i].n_simulations = calls[j].n_simulations
          /\ SameButOptOut(calls[i].argument, calls[j].argument))
         => /\ calls[i].outcome = calls[j].outcome
            /\ calls[i].drawn = calls[j].drawn
            /\ calls[i].rng_after = calls[j].rng_after
            /\ calls[i].rated = calls[j].rated
            /\ calls[i].value.data = calls[j].value.data
            /\ calls[i].value.mean_accuracy = calls[j].value.mean_accuracy
            /\ calls[i].value.std_accuracy = calls[j].value.std_accuracy
  /\ pc = "idle" => \A i \in Calls :
       (Returned(calls[i]) /\ OnlyOptOutPositive(Ran(calls[i])))
         => \A t \in 1 .. Len(calls[i].value.data) :
              Fallback(calls[i].value.data[t]) /\ calls[i].rated[t] = <<>>

(* two completed calls: one composition starts with an OPT_OUT entry of a *)
(* positive count, the other has no OPT_OUT entry, and an agent rated     *)
C6_Witness ==
  /\ Len(calls) = 2
  /\ calls[1].n_simulations >= 1
  /\ SameButOptOut(calls[1].argument, calls[2].argument)
  /\ Len(calls[1].argument.value) >= 2
  /\ calls[1].argument.value[1].type = OPT_OUT
  /\ calls[1].argument.value[1].count > 0
  /\ ~ HasKey(calls[2].argument.value, OPT_OUT)
  /\ SomeRating(calls[1])
  /\ SomeRating(calls[2])

C8_Aggregation ==
  \A log \in Logs :
    \A t \in 1 .. Len(log.data) :
      log.rated[t] # <<>>
        => LET rs == log.rated[t]
               rec == log.data[t]
           IN  /\ rec.n_participants = Len(rs)
               /\ rec.collective_estimate * Len(rs) = SumSeq(rs) * Scale
               /\ \A f \in Orderings(Len(rs)) :
                    CollectiveEstimate(Permuted(rs, f)) = rec.collective_estimate
               /\ (AccOne - rec.accuracy) * 100 * Unit * Scale
                    = Abs(rec.collective_estimate - rec.ground_truth * Scale) * AccOne

(* a returned trial with two different ratings, its estimate off the truth *)
C8_Witness ==
  /\ Len(calls) = 1
  /\ Returned(calls[1])
  /\ \E t \in 1 .. Len(calls[1].rated) :
       /\ Len(calls[1].rated[t]) = 2
       /\ calls[1].rated[t][1] # calls[1].rated[t][2]
       /\ calls[1].value.data[t].collective_estimate
            # calls[1].value.data[t].ground_truth * Scale

(* C9: every rating is in [0, 100], every ground truth in [20, 80], every *)
(* collective estimate, mean or fallback, in [0, 100].                    *)
C9_RatingBounds ==
  /\ \A r \in 1 .. Len(ratings) : ratings[r] >= 0 /\ ratings[r] <= 100 * Unit
  /\ pc \in {"agent", "aggregate"}
       => ground_truth >= 20 * Unit /\ ground_truth <= 80 * Unit
  /\ \A log \in Logs :
       \A t \in 1 .. Len(log.data) :
         /\ \A r \in 1 .. Len(log.rated[t]) :
              log.rated[t][r] >= 0 /\ log.rated[t][r] <= 100 * Unit
         /\ log.data[t].ground_truth >= 20 * Unit
         /\ log.data[t].ground_truth <= 80 * Unit
         /\ log.data[t].collective_estimate >= 0
         /\ log.data[t].collective_estimate <= 100 * Unit * Scale

(* a returned trial with a rating clipped to 0 and a rating clipped to 100 *)
C9_Witness ==
  /\ Len(calls) = 1
  /\ Returned(calls[1])
  /\ \E t \in 1 .. Len(calls[1].rated) :
       /\ \E r \in 1 .. Len(calls[1].rated[t]) : calls[1].rated[t][r] = 0
       /\ \E r \in 1 .. Len(calls[1].rated[t]) : calls[1].rated[t][r] = 100 * Unit

(* C10: a call of n >= 1 trials runs exactly n trials, each against the     *)
(* composition it was given, and returns exactly n records together with    *)
(* that composition.                                                        *)
C10_TrialCount ==
  /\ pc # "idle"
       => /\ composition = Effective(argument)
          /\ n_simulations >= 1 => sim <= n_simulations
          /\ Occurrences(drawn, "ground_truth")
               = sim + (IF pc \in {"agent", "aggregate"} THEN 1 ELSE 0)
  /\ \A i \in Calls :
       (Returned(calls[i]) /\ calls[i].n_simulations >= 1)
         => /\ Len(calls[i].value.data) = calls[i].n_simulations
            /\ Len(calls[i].rated) = calls[i].n_simulations
            /\ Occurrences(calls[i].drawn, "ground_truth") = calls[i].n_simulations
            /\ calls[i].value.composition = Ran(calls[i])
            /\ calls[i].argument.given
                 => calls[i].value.composition = calls[i].argument.value

(* a returned call of two trials, one of them rated *)
C10_Witness ==
  /\ Len(calls) = 1
  /\ Returned(calls[1])
  /\ calls[1].n_simulations = 2
  /\ Len(calls[1].value.data) = 2
  /\ SomeRating(calls[1])

(* the draws of k agents read off the head of the draw log d: each agent is *)
(* one participation draw, followed or not by a bias and a noise draw       *)
RECURSIVE ParseAgents(_, _)
ParseAgents(d, k) ==
  IF k = 0 THEN [ok |-> TRUE, rest |-> d, participants |-> 0]
  ELSE IF d = <<>> \/ Head(d) # "participation"
    THEN [ok |-> FALSE, rest |-> <<>>, participants |-> 0]
  ELSE IF Len(d) >= 2 /\ d[2] = "bias"
    THEN IF Len(d) >= 3 /\ d[3] = "noise"
           THEN LET r == ParseAgents(SubSeq(d, 4, Len(d)), k - 1)
                IN  [r EXCEPT !.participants = @ + 1]
           ELSE [ok |-> FALSE, rest |-> <<>>, participants |-> 0]
  ELSE ParseAgents(Tail(d), k - 1)

(* the draw log d read as whole trials of N agents each: the number of *)
(* participants of every trial, if the log has that shape              *)
RECURSIVE ParseTrials(_, _)
ParseTrials(d, N) ==
  IF d = <<>> THEN [ok |-> TRUE, participants |-> <<>>]
  ELSE IF Head(d) # "ground_truth" THEN [ok |-> FALSE, participants |-> <<>>]
  ELSE LET a == ParseAgents(Tail(d), N)
       IN  IF ~ a.ok THEN [ok |-> FALSE, participants |-> <<>>]
           ELSE LET r == ParseTrials(a.rest, N)
                IN  [ok |-> r.ok, participants |-> <<a.participants>> \o r.participants]

(* C11: in every trial the ground truth is drawn first, then every agent of *)
(* a non-OPT_OUT entry of positive count makes one participation draw,      *)
(* followed exactly when it participates by one bias draw and then one      *)
(* noise draw; a trial of N agents with P participants makes 1 + N + 2 * P  *)
(* draws, and P <= N.                                                       *)
C11_DrawSequence ==
  /\ pc = "loop" => ParseTrials(drawn, Agents(composition)).ok
  /\ pc \in {"agent", "aggregate"} => drawn # <<>> /\ Len(ratings) <= Agents(composition)
  /\ pc = "idle" => \A i \in Calls :
       LET N == Agents(Ran(calls[i]))
           shape == ParseTrials(calls[i].drawn, N)
           data == calls[i].value.data
       IN  /\ shape.ok
           /\ Len(shape.participants) = Len(data)
           /\ \A t \in 1 .. Len(data) :
                /\ shape.participants[t] = data[t].n_participants
                /\ data[t].n_participants <= N
           /\ Len(calls[i].drawn)
                = SumSeq([t \in 1 .. Len(data) |-> 1 + N + 2 * data[t].n_participants])
           /\ Len(calls[i].decided) = N * Len(data)

(* a returned call over two agents and an OPT_OUT entry of positive count, *)
(* with a trial in which one agent rated and the other abstained           *)
C11_Witness ==
  /\ Len(calls) = 1
  /\ Returned(calls[1])
  /\ Agents(Ran(calls[1])) = 2
  /\ \E e \in 1 .. Len(Ran(calls[1])) :
       Ran(calls[1])[e].type = OPT_OUT /\ Ran(calls[1])[e].count > 0
  /\ \E t \in 1 .. Len(calls[1].value.data) : calls[1].value.data[t].n_participants = 1
  /\ Len(calls[1].drawn) = 5

(* the agent decisions to look at: the one just taken in the call in       *)
(* progress (the earlier ones were looked at when they were taken) and,     *)
(* when a call has just completed and none is in progress, all decisions of *)
(* every completed call                                                     *)
Decisions ==
  IF pc = "idle"
    THEN UNION {{calls[i].decided[k] : k \in 1 .. Len(calls[i].decided)} : i \in Calls}
    ELSE {decided[k] : k \in {Len(decided)} \ {0}}

(* C12: the bias offset of a participating agent is chosen by one Bernoulli  *)
(* draw against its type's bias probability: +8 on success and -2 on failure *)
(* for INTRINSIC, -6 on success and +1 on failure for FREE_RIDER; no other   *)
(* offset is applied, and an agent that abstains gets none.                  *)
C12_BiasSelection ==
  \A d \in Decisions :
    /\ d.agent_type \in {INTRINSIC, FREE_RIDER}
    /\ (d.participates /\ d.agent_type = INTRINSIC)
         => /\ d.v >= 0 /\ d.v < ProbOne
            /\ d.bias = (IF d.v < d.bias_prob THEN 8 * Unit ELSE -2 * Unit)
    /\ (d.participates /\ d.agent_type = FREE_RIDER)
         => /\ d.v >= 0 /\ d.v < ProbOne
            /\ d.bias = (IF d.v < d.bias_prob THEN -6 * Unit ELSE 1 * Unit)
    /\ ~ d.participates => d.v = NotComputed /\ d.bias = 0

(* a returned call in which an INTRINSIC agent got +8 on a successful bias *)
(* draw and a FREE_RIDER agent got +1 on a failed one                     *)
C12_Witness ==
  /\ Len(calls) = 1
  /\ Returned(calls[1])
  /\ \E j, k \in 1 .. Len(calls[1].decided) :
       /\ calls[1].decided[j].agent_type = INTRINSIC
       /\ calls[1].decided[j].bias = 8 * Unit
       /\ calls[1].decided[j].v < calls[1].decided[j].bias_prob
       /\ calls[1].decided[k].agent_type = FREE_RIDER
       /\ calls[1].decided[k].bias = 1 * Unit
       /\ calls[1].decided[k].v >= calls[1].decided[k].bias_prob

(* C13: every call of n >= 1 trials against a composition of non-negative   *)
(* counts with at least one agent returns a standard deviation of the       *)
(* accuracies that is a number (not NaN) and is >= 0, a single trial        *)
(* included.                                                                *)
C13_StdDefined ==
  \A i \in Calls :
    (calls[i].n_simulations >= 1 /\ NonNegative(Ran(calls[i])) /\ Total(Ran(calls[i])) > 0)
      => /\ Returned(calls[i])
         /\ ~ calls[i].value.std_accuracy.nan
         /\ calls[i].value.std_accuracy.sq_num >= 0
         /\ calls[i].value.std_accuracy.sq_den > 0

(* the error |collective_estimate - ground_truth| of a record, in estimate units *)
ErrorOf(rec) == Abs(rec.collective_estimate - rec.ground_truth * Scale)

(* C20: a recorded accuracy is 1 - |collective_estimate - ground_truth| / 100 *)
(* exactly when the trial had a participant; in a trial without one the      *)
(* recorded accuracy 0.5 is strictly below what that formula gives for the   *)
(* recorded estimate 50.0, which is at least 0.7.                            *)
C20_FallbackBelowFormula ==
  \A log \in Logs :
    \A t \in 1 .. Len(log.data) :
      LET rec == log.data[t]
      IN  /\ ((AccOne - rec.accuracy) * Hundred = ErrorOf(rec) * AccOne)
               <=> rec.n_participants > 0
          /\ rec.n_participants = 0
               => /\ 2 * rec.accuracy = AccOne
                  /\ rec.collective_estimate = 50 * Unit * Scale
                  /\ rec.accuracy * Hundred < (Hundred - ErrorOf(rec)) * AccOne
                  /\ 10 * (Hundred - ErrorOf(rec)) >= 7 * Hundred

(* a returned call with a trial without participants whose ground truth is  *)
(* near 80, and a trial with a participant                                  *)
C20_Witness ==
  /\ Len(calls) = 1
  /\ Returned(calls[1])
  /\ \E t, r \in 1 .. Len(calls[1].value.data) :
       /\ calls[1].value.data[t].n_participants = 0
       /\ calls[1].value.data[t].ground_truth > 79 * Unit
       /\ calls[1].value.data[r].n_participants > 0

(* the expected number of participants of a trial, in hundredths of an agent, *)
(* under the rates pI of INTRINSIC and pF of FREE_RIDER: every inner-loop     *)
(* iteration participates with its type's rate                                *)
RECURSIVE ExpectedParticipants(_, _, _)
ExpectedParticipants(comp, pI, pF) ==
  IF comp = <<>> THEN 0
  ELSE (IF Head(comp).type = OPT_OUT \/ Head(comp).count <= 0 THEN 0
        ELSE Head(comp).count * (IF Head(comp).type = INTRINSIC THEN pI ELSE pF))
       + ExpectedParticipants(Tail(comp), pI, pF)

(* rates at or above p: p itself, the next hundredth, the type's rate with *)
(* incentive if it is above p, and certainty                               *)
Raised(t, p) ==
  {q \in {p, p + 1, participation_model(t, TRUE), ProbOne} : q >= p /\ q <= ProbOne}

(* C16: an agent participates exactly when its participation draw u is    *)
(* below its type's participation rate, so an agent that participates     *)
(* under a rate p does so, on the same draw, under every rate p' >= p;    *)
(* and raising one type's rate never lowers the expected number of        *)
(* participants per trial of the composition of the call.                 *)
C16_ParticipationMonotone ==
  /\ \A d \in Decisions :
       /\ d.participation_prob = participation_model(d.agent_type, FALSE)
       /\ d.u >= 0 /\ d.u < ProbOne
       /\ d.participates <=> d.u < d.participation_prob
       /\ \A q \in Raised(d.agent_type, d.participation_prob) : d.participates => d.u < q
  /\ pc = "idle" => \A i \in Calls :
       LET comp == Ran(calls[i])
           pI == participation_model(INTRINSIC, FALSE)
           pF == participation_model(FREE_RIDER, FALSE)
           expected == ExpectedParticipants(comp, pI, pF)
       IN  /\ \A q \in Raised(INTRINSIC, pI) : ExpectedParticipants(comp, q, pF) >= expected
           /\ \A q \in Raised(FREE_RIDER, pF) : ExpectedParticipants(comp, pI, q) >= expected

(* a returned call over both types in which an INTRINSIC agent abstained on *)
(* a draw equal to its rate and a FREE_RIDER agent participated             *)
C16_Witness ==
  /\ Len(calls) = 1
  /\ Returned(calls[1])
  /\ ExpectedParticipants(Ran(calls[1]), 76, 23) = 76 + 23
  /\ \E j, k \in 1 .. Len(calls[1].decided) :
       /\ calls[1].decided[j].agent_type = INTRINSIC
       /\ calls[1].decided[j].u = calls[1].decided[j].participation_prob
       /\ ~ calls[1].decided[j].participates
       /\ calls[1].decided[k].agent_type = FREE_RIDER
       /\ calls[1].decided[k].participates

(* every probability of the table is in [0, 1] *)
InRange(table) == \A key \in ProbabilityKeys : table[key] >= 0 /\ table[key] <= ProbOne

(* C17: a participation rate, bias probability or accuracy figure outside   *)
(* [0, 1] is reported when it is configured, before any trial: no call runs *)
(* a trial or makes a draw with such a parameter, and a call made with one  *)
(* (its trial count and composition being valid) ends with the error        *)
(* InvalidParameter.                                                        *)
C17_ParameterRejected ==
  /\ (~ InRange(params) /\ pc # "idle" /\ n_simulations >= 1
        /\ NonNegative(composition) /\ Total(composition) > 0)
       => drawn = <<>> /\ results = <<>>
  /\ \A i \in Calls :
       (~ InRange(params) /\ calls[i].n_simulations >= 1
          /\ NonNegative(Ran(calls[i])) /\ Total(Ran(calls[i])) > 0)
         => /\ calls[i].outcome = "InvalidParameter"
            /\ calls[i].drawn = <<>>
            /\ calls[i].value = NoValue

(* the clean and the working script declare the same figures for every type *)
CleanIsWorking ==
  \A t \in AgentType :
    /\ get_participation_rates(t).base_rate = predict_participation_probability(t, FALSE)
    /\ get_participation_rates(t).with_incentives = predict_participation_probability(t, TRUE)
    /\ get_rating_patterns(t).accuracy = predict_rating_bias_pattern(t).individual_accuracy
    /\ get_rating_patterns(t).bias_probability = predict_rating_bias_pattern(t).bias_prob

(* the revised script's rates and accuracy figures are those of the clean script *)
RatesAndAccuracyAgree ==
  /\ \A t \in AgentType :
       /\ participation_model(t, FALSE) = get_participation_rates(t).base_rate
       /\ participation_model(t, TRUE) = get_participation_rates(t).with_incentives
       /\ accuracy_model(t) = get_rating_patterns(t).accuracy
  /\ participation_model(OPT_OUT, FALSE) = 0
  /\ participation_model(OPT_OUT, TRUE) = 0
  /\ \A d \in Decisions :
       /\ d.participation_prob = get_participation_rates(d.agent_type).base_rate
       /\ d.participates
            => d.individual_accuracy = get_rating_patterns(d.agent_type).accuracy

SameCounts(a, b) ==
  /\ a.given
  /\ b.given
  /\ {a.value[k] : k \in 1 .. Len(a.value)} = {b.value[k] : k \in 1 .. Len(b.value)}

(* C19: two calls with the same trial count whose compositions give every   *)
(* type the same count, in whatever order of entries, give the same ground  *)
(* truths, ratings, collective estimates, accuracies, participant counts    *)
(* and summary statistics.                                                  *)
C19_EntryOrderIndependent ==
  \A i, j \in Calls :
    (calls[i].n_simulations = calls[j].n_simulations
       /\ SameCounts(calls[i].argument, calls[j].argument))
      => /\ calls[i].outcome = calls[j].outcome
         /\ calls[i].rated = calls[j].rated
         /\ calls[i].value.data = calls[j].value.data
         /\ calls[i].value.mean_accuracy = calls[j].value.mean_accuracy
         /\ calls[i].value.std_accuracy = calls[j].value.std_accuracy

(* the names of the first k compositions of compare_populations *)
NamesUpTo(k) == {compositions[j].name : j \in 1 .. k}

(* the calls the k-th iteration of compare_populations made *)
CallsBy(k) == {i \in Calls : calls[i].by = k}

(* C14: compare_populations calls the simulation exactly once for each named *)
(* composition, with that composition and the comparison's trial count, and  *)
(* returns a dict whose keys are exactly the names; the value under a name   *)
(* is what that call returned, and it equals what a call of the simulation   *)
(* on its own returns for the same composition and trial count, whether made *)
(* before the comparison or after it.                                        *)
C14_Comparator ==
  /\ comparing \in 1 .. Len(compositions) + 1
       => /\ DOMAIN compared = NamesUpTo(comparing - 1)
          /\ \A k \in 1 .. comparing - 1 :
               /\ Cardinality(CallsBy(k)) = 1
               /\ \A i \in CallsBy(k) :
                    /\ calls[i].n_simulations = CompareTrials
                    /\ calls[i].argument = Given(compositions[k].composition)
                    /\ Returned(calls[i])
                    /\ compared[compositions[k].name] = calls[i].value
          /\ \A k \in comparing .. Len(compositions) : CallsBy(k) = {}
  /\ comparing = 0 => compared = <<>>
  /\ \A i \in CallsBy(0) :
       \A k \in 1 .. Len(compositions) :
         (calls[i].n_simulations = CompareTrials
            /\ calls[i].argument = Given(compositions[k].composition)
            /\ compositions[k].name \in DOMAIN compared)
           => compared[compositions[k].name] = calls[i].value

(* compare_populations has returned its dict, a call of the simulation on   *)
(* its own with the third composition was made afterwards, and an agent     *)
(* rated in it                                                              *)
C14_Witness ==
  /\ comparing = Len(compositions) + 1
  /\ Len(calls) = Len(compositions) + 1
  /\ calls[Len(calls)].by = 0
  /\ calls[Len(calls)].argument = Given(compositions[3].composition)
  /\ SomeRating(calls[Len(calls)])
  /\ compared[compositions[3].name] = calls[Len(calls)].value

(* a reliability in thousandths that is h hundredths to two decimals, ties *)
(* left out                                                                *)
ToTwoDecimals(v, h) == 10 * h - 5 < v /\ v < 10 * h + 5

(* the reliabilities the caller holds *)
Assessed == {reliability[k] : k \in 1 .. Len(reliability)}

(* each observer type gives a source of its own type strictly more than a *)
(* source of the other type                                               *)
Homophily ==
  /\ reliability_assessment(FREE_RIDER, FREE_RIDER) > reliability_assessment(FREE_RIDER, INTRINSIC)
  /\ reliability_assessment(INTRINSIC, INTRINSIC) > reliability_assessment(INTRINSIC, FREE_RIDER)

(* C21: with the table as the script declares it, reliability_assessment    *)
(* gives each observer type strictly more for a source of its own type than *)
(* for a source of the other type: 0.84 against 0.47 for a FREE_RIDER       *)
(* observer, 0.76 against 0.44 for an INTRINSIC one, to two decimals. An    *)
(* OPT_OUT observer gets 0.5 whatever the source and the table. Every value *)
(* returned for a source whose participation rate is in [0, 1] lies in      *)
(* [0.1, 1.0], and with such rates the preference for the own type holds    *)
(* exactly when the INTRINSIC base rate is above the FREE_RIDER one.        *)
C21_ReliabilityHomophily ==
  /\ params = EMPIRICAL_PARAMS
       => /\ Homophily
          /\ ToTwoDecimals(reliability_assessment(FREE_RIDER, FREE_RIDER), 84)
          /\ ToTwoDecimals(reliability_assessment(FREE_RIDER, INTRINSIC), 47)
          /\ ToTwoDecimals(reliability_assessment(INTRINSIC, INTRINSIC), 76)
          /\ ToTwoDecimals(reliability_assessment(INTRINSIC, FREE_RIDER), 44)
          /\ \A r \in Assessed :
               (r.source_participation = participation_model(r.source_type, FALSE))
                 => r.value = reliability_assessment(r.observer_type, r.source_type)
  /\ \A r \in Assessed :
       /\ r.observer_type = OPT_OUT => r.value = RelOne \div 2
       /\ (r.source_participation >= 0 /\ r.source_participation <= ProbOne)
            => (r.value >= RelOne \div 10 /\ r.value <= RelOne)
  /\ InRange(params)
       => /\ \A observer, source \in AgentType :
               /\ reliability_assessment(observer, source) >= RelOne \div 10
               /\ reliability_assessment(observer, source) <= RelOne
          /\ Homophily <=> (params.intrinsic_base_participation
                              > params.freerider_base_participation)

(* with the declared table a FREE_RIDER observer has just assessed a *)
(* FREE_RIDER source and holds 0.839                                 *)
C21_Witness ==
  /\ params = EMPIRICAL_PARAMS
  /\ \E r \in Assessed :
       /\ r.observer_type = FREE_RIDER
       /\ r.source_type = FREE_RIDER
       /\ r.source_participation = 23
       /\ r.value = 839

====
